---- MODULE Spec2Model ----
\* Model of eeprom/generate_eeprom.py: the BeagleBone cape EEPROM generator.
\*
\* Strings are sequences of code points, byte strings are sequences of
\* 0..255.  A record offset o of the Python code is element o + 1 of the
\* sequence here.
\*
\* Two specifications:
\*   Spec    the program: main() parses args, generate_eeprom() appends the
\*           fields one statement at a time, main() writes the file;
\*   SpecFn  pad_string and generate_serial_number called on their own with
\*           inputs drawn from bounded sets.
EXTENDS Integers, Sequences, FiniteSets

VARIABLES
    args,         \* the argparse namespace of main()
    pc,           \* the statement of generate_eeprom()/main() to run next
    data,         \* the bytearray `data` of generate_eeprom()
    exn,          \* the exception that ended the run, kind "none" if none
    eeprom_data,  \* main()'s eeprom_data, <<>> until generate_eeprom returns
    file,         \* [written, bytes]: what write_bytes put in the output file
    call,         \* SpecFn: the helper call under test and its arguments
    ret           \* SpecFn: what the call returned or raised

vars == <<args, pc, data, exn, eeprom_data, file, call, ret>>

-----------------------------------------------------------------------------
\* Field sizes (bytes) the code uses

EEPROM_REV_SIZE == 2
BOARD_NAME_SIZE == 32
VERSION_SIZE == 4
MANUFACTURER_SIZE == 16
PART_NUMBER_SIZE == 16
SERIAL_NUMBER_SIZE == 12
PIN_USAGE_SIZE == 148

EEPROM_HEADER == <<170, 85, 51, 238>>

\* DEFAULTS, as code points.
DEFAULTS ==
    [ board_name     |-> <<66, 66, 45, 73, 79, 45, 67, 65, 80, 69>>,
      version        |-> <<48, 48, 48, 49>>,
      manufacturer   |-> <<65, 110, 100, 114, 101, 119, 32, 67, 46, 32, 89, 111, 117, 110, 103>>,
      part_number    |-> <<66, 66, 45, 73, 79, 45, 67, 65, 80, 69, 45, 48, 49>>,
      eeprom_rev     |-> <<65, 49>>,
      vdd_3v3b_ma    |-> 50,
      vdd_5v_ma      |-> 0,
      sys_5v_ma      |-> 0,
      dc_supplied_ma |-> 0 ]

\* The default of generate_serial_number's assembly_code parameter: 'CAPE'.
DEFAULT_ASSEMBLY_CODE == <<67, 65, 80, 69>>

-----------------------------------------------------------------------------
\* Python built-ins the code relies on

\* bytes/str.ljust(length, fill): fill on the right up to length, never cut.
ljust(s, length, fill) ==
    IF Len(s) >= length THEN s
    ELSE s \o [i \in 1..(length - Len(s)) |-> fill]

\* s[:n]
Prefix(s, n) == SubSeq(s, 1, IF Len(s) < n THEN Len(s) ELSE n)

\* A result of a call that may raise.
Ok(v) == [ok |-> TRUE, err |-> "none", val |-> v]
Raise(kind) == [ok |-> FALSE, err |-> kind, val |-> <<>>]

\* str.encode('ascii'): the code points themselves, UnicodeEncodeError on any
\* code point above 127.
encode_ascii(s) ==
    IF \E i \in 1..Len(s) : s[i] > 127 THEN Raise("UnicodeEncodeError") ELSE Ok(s)

\* struct.pack('>H', v): two bytes, most significant first; struct.error
\* outside 0..65535.
pack_H_wrap(v) == Ok(<<(v % 65536) \div 256, v % 256>>)

pack_H_le(v) ==
    IF v < 0 \/ v > 65535 THEN Raise("struct.error") ELSE Ok(<<v % 256, v \div 256>>)

pack_H(v) ==
    IF v < 0 \/ v > 65535 THEN Raise("struct.error") ELSE Ok(<<v \div 256, v % 256>>)

\* f"{n:02d}" for n >= 0: decimal digits, zero-filled to at least 2.
RECURSIVE Digits(_)
Digits(n) == IF n < 10 THEN <<48 + n>> ELSE Digits(n \div 10) \o <<48 + (n % 10)>>

fmt_02d(n) == IF Len(Digits(n)) >= 2 THEN Digits(n) ELSE <<48>> \o Digits(n)

-----------------------------------------------------------------------------
\* pad_string

pad_string_trunc(s, length) ==
    LET e == encode_ascii(s) IN
    IF ~e.ok THEN e
    ELSE Ok(ljust(Prefix(e.val, length), length, 32))

pad_string_nopad(s, length) ==
    LET e == encode_ascii(s) IN
    IF ~e.ok THEN e
    ELSE IF Len(e.val) > length THEN Raise("ValueError")
    ELSE Ok(e.val)

pad_string(s, length) ==
    LET e == encode_ascii(s) IN
    IF ~e.ok THEN e
    ELSE IF Len(e.val) > length THEN Raise("ValueError")
    ELSE Ok(ljust(e.val, length, 32))

-----------------------------------------------------------------------------
\* generate_serial_number: now = [week |-> isocalendar()[1], year |-> now.year]

generate_serial_number_nocut(assembly_code, now) ==
    fmt_02d(now.week) \o fmt_02d(now.year % 100)
        \o ljust(assembly_code, 4, 48) \o <<48, 48, 48, 49>>

generate_serial_number(assembly_code, now) ==
    LET week == now.week
        year == now.year % 100
        assembly == ljust(Prefix(assembly_code, 4), 4, 48)
    IN  fmt_02d(week) \o fmt_02d(year) \o assembly \o <<48, 48, 48, 49>>

-----------------------------------------------------------------------------
\* build_pin_usage_data

\* The set_pin(...) calls of build_pin_usage_data, in order.  pullup,
\* pull_disable and slew_slow are never passed: they take the defaults of
\* set_pin's signature (True, False, False).
Pin(header, pin, mux_mode, rx_enable) ==
    [ header |-> header, pin |-> pin, mux_mode |-> mux_mode,
      rx_enable |-> rx_enable, pullup |-> TRUE, pull_disable |-> FALSE,
      slew_slow |-> FALSE ]

PinAssignments ==
    << Pin(9, 26, 0, TRUE),  Pin(9, 24, 0, FALSE),   \* UART1
       Pin(9, 22, 1, TRUE),  Pin(9, 21, 1, FALSE),   \* UART2
       Pin(9, 11, 6, TRUE),  Pin(9, 13, 6, FALSE),   \* UART4
       Pin(9, 17, 2, TRUE),  Pin(9, 18, 2, TRUE),    \* I2C1
       Pin(9, 19, 3, TRUE),  Pin(9, 20, 3, TRUE),    \* I2C2
       Pin(9, 39, 0, FALSE), Pin(9, 33, 0, FALSE),   \* A1
       Pin(9, 37, 0, FALSE), Pin(9, 35, 0, FALSE),   \* A2
       Pin(9, 38, 0, FALSE), Pin(9, 36, 0, FALSE),   \* A3
       Pin(9, 42, 7, FALSE), Pin(9, 41, 7, FALSE),   \* D1
       Pin(8, 19, 7, FALSE), Pin(8, 13, 7, FALSE),   \* D2
       Pin(8, 14, 7, FALSE), Pin(8, 17, 7, FALSE),   \* D3
       Pin(8, 12, 7, FALSE), Pin(8, 11, 7, FALSE),   \* D4
       Pin(8, 16, 7, FALSE), Pin(8, 15, 7, FALSE),   \* D5
       Pin(9, 15, 7, FALSE), Pin(9, 16, 7, FALSE),   \* D6
       Pin(8, 7, 7, FALSE),  Pin(8, 8, 7, FALSE),    \* D7
       Pin(8, 10, 7, FALSE), Pin(8, 9, 7, FALSE),    \* D8
       Pin(9, 25, 7, FALSE), Pin(9, 27, 7, FALSE),   \* D9
       Pin(9, 12, 7, FALSE), Pin(8, 28, 7, FALSE) >> \* RTC

\* The index set_pin computes: P8 pin n -> n - 1, otherwise 46 + (n - 1).
PinIndex(header, pin) == IF header = 8 THEN pin - 1 ELSE 46 + (pin - 1)

\* The 16-bit word set_pin builds.  The flags are distinct bits, so the
\* code's |= is addition; mux_mode & 0x07 is mux_mode % 8.
PinValue(mux_mode, rx_enable, pullup, pull_disable, slew_slow) ==
    32768
    + (IF slew_slow THEN 64 ELSE 0)
    + (IF rx_enable THEN 32 ELSE 0)
    + (IF pullup THEN 16 ELSE 0)
    + (IF pull_disable THEN 8 ELSE 0)
    + (mux_mode % 8)

set_pin_le(pin_data, header, pin, mux_mode, rx_enable, pullup, pull_disable, slew_slow) ==
    LET index == PinIndex(header, pin)
        value == PinValue(mux_mode, rx_enable, pullup, pull_disable, slew_slow)
    IN  IF index < 0 \/ index >= 74 THEN pin_data
        ELSE [pin_data EXCEPT ![index * 2 + 1] = value % 256,
                              ![index * 2 + 2] = (value \div 256) % 256]

set_pin_rx_high(pin_data, header, pin, mux_mode, rx_enable, pullup, pull_disable, slew_slow) ==
    LET index == PinIndex(header, pin)
        value == PinValue(mux_mode, FALSE, pullup, pull_disable, slew_slow)
                 + (IF rx_enable THEN 8192 ELSE 0)
    IN  IF index < 0 \/ index >= 74 THEN pin_data
        ELSE [pin_data EXCEPT ![index * 2 + 1] = (value \div 256) % 256,
                              ![index * 2 + 2] = value % 256]

set_pin(pin_data, header, pin, mux_mode, rx_enable, pullup, pull_disable, slew_slow) ==
    LET index == PinIndex(header, pin)
        value == PinValue(mux_mode, rx_enable, pullup, pull_disable, slew_slow)
    IN  IF index < 0 \/ index >= 74 THEN pin_data   \* skip invalid indices
        ELSE [pin_data EXCEPT ![index * 2 + 1] = (value \div 256) % 256,
                              ![index * 2 + 2] = value % 256]

\* pin_data after the first n set_pin calls, from bytearray(PIN_USAGE_SIZE).
RECURSIVE PinDataAfter(_)
PinDataAfter(n) ==
    IF n = 0 THEN [i \in 1..PIN_USAGE_SIZE |-> 0]
    ELSE LET a == PinAssignments[n]
         IN  set_pin(PinDataAfter(n - 1), a.header, a.pin, a.mux_mode,
                     a.rx_enable, a.pullup, a.pull_disable, a.slew_slow)

build_pin_usage_data == PinDataAfter(Len(PinAssignments))

-----------------------------------------------------------------------------
\* Inputs

\* SpecFn: how far past the declared width the strings given to pad_string run.
MaxOver == 1
\* The longest assembly code handed to generate_serial_number.
MaxAssemblyLen == 5

\* A string of n characters, all different from their neighbours:
\* base, base + 1, ... wrapping after ten.
Ramp(n, base) == [i \in 1..n |-> base + ((i - 1) % 10)]

\* An optional string: --serial defaults to None.
None == [is_none |-> TRUE, s |-> <<>>]
Some(s) == [is_none |-> FALSE, s |-> s]

\* What main() is given for a string option of declared width w with
\* default d: the default, a value that fills the width, one a character
\* too long.
StrInputs(d, w) == {d, Ramp(w, 65), Ramp(w + 1, 65)}

SerialInputs ==
    { None, Some(<<>>), Some(Ramp(SERIAL_NUMBER_SIZE, 48)),
      Some(Ramp(SERIAL_NUMBER_SIZE + 1, 48)) }

\* type=int options: any integer, in or out of 0..65535.

ArgsInputs ==
    [ eeprom_rev     : StrInputs(DEFAULTS.eeprom_rev, EEPROM_REV_SIZE),
      board_name     : StrInputs(DEFAULTS.board_name, BOARD_NAME_SIZE),
      version        : StrInputs(DEFAULTS.version, VERSION_SIZE),
      manufacturer   : StrInputs(DEFAULTS.manufacturer, MANUFACTURER_SIZE),
      part_number    : StrInputs(DEFAULTS.part_number, PART_NUMBER_SIZE),
      serial         : SerialInputs,
      vdd_3v3b_ma    : {-1, DEFAULTS.vdd_3v3b_ma, 65536},
      vdd_5v_ma      : {-1, 4660, 65535},
      sys_5v_ma      : {0, 4660, 65536},
      dc_supplied_ma : {-1, 255, 65536} ]

\* datetime.datetime.now() as generate_serial_number reads it.
NowInputs == {[week |-> 1, year |-> 2026], [week |-> 53, year |-> 2009]}

NoCall == [fn |-> "none", s |-> <<>>, n |-> 0, week |-> 0, year |-> 0]
NoRet == [done |-> FALSE, ok |-> FALSE, err |-> "none", val |-> <<>>]
NoExn == [kind |-> "none", at |-> "none"]
NoFile == [written |-> FALSE, bytes |-> <<>>]

-----------------------------------------------------------------------------
\* The program: main() and generate_eeprom()

Init ==
    /\ args \in ArgsInputs
    /\ pc = "header"
    /\ data = <<>>
    /\ exn = NoExn
    /\ eeprom_data = <<>>
    /\ file = NoFile
    /\ call = NoCall
    /\ ret = NoRet

Extend_swallow(here, r, next) ==
    /\ pc = here
    /\ data' = data \o r.val
    /\ pc' = next
    /\ exn' = exn
    /\ UNCHANGED <<args, eeprom_data, file, call, ret>>

\* data.extend(r) where evaluating r may raise: the exception leaves
\* generate_eeprom and main, nothing after it runs.
Extend(here, r, next) ==
    /\ pc = here
    /\ IF r.ok
       THEN /\ data' = data \o r.val
            /\ pc' = next
            /\ exn' = exn
       ELSE /\ data' = data
            /\ pc' = "raised"
            /\ exn' = [kind |-> r.err, at |-> here]
    /\ UNCHANGED <<args, eeprom_data, file, call, ret>>

Header == Extend("header", Ok(EEPROM_HEADER), "eeprom_rev")

EepromRev ==
    Extend("eeprom_rev", pad_string(args.eeprom_rev, EEPROM_REV_SIZE), "board_name")

BoardName ==
    Extend("board_name", pad_string(args.board_name, BOARD_NAME_SIZE), "version")

Version ==
    Extend("version", pad_string(args.version, VERSION_SIZE), "manufacturer")

Manufacturer ==
    Extend("manufacturer", pad_string(args.manufacturer, MANUFACTURER_SIZE), "part_number")

PartNumber ==
    Extend("part_number", pad_string(args.part_number, PART_NUMBER_SIZE), "num_pins")

\* num_pins = 36; data.extend(struct.pack('>H', num_pins))
NumPins == Extend("num_pins", pack_H(36), "serial")

\* serial = args.serial or generate_serial_number(): None and '' are both
\* falsy.
SerialNumber ==
    \E now \in NowInputs :
        LET serial == IF args.serial.is_none \/ args.serial.s = <<>>
                      THEN generate_serial_number(DEFAULT_ASSEMBLY_CODE, now)
                      ELSE args.serial.s
        IN  Extend("serial", pad_string(serial, SERIAL_NUMBER_SIZE), "pin_usage")

PinUsage == Extend("pin_usage", Ok(build_pin_usage_data), "vdd_3v3b")

Vdd3v3b == Extend("vdd_3v3b", pack_H(args.vdd_3v3b_ma), "vdd_5v")

Vdd5v == Extend("vdd_5v", pack_H(args.vdd_5v_ma), "sys_5v")

Sys5v == Extend("sys_5v", pack_H(args.sys_5v_ma), "dc_supplied")

DcSupplied == Extend("dc_supplied", pack_H(args.dc_supplied_ma), "return")

\* return bytes(data); eeprom_data = generate_eeprom(args)
Return ==
    /\ pc = "return"
    /\ eeprom_data' = data
    /\ pc' = "write_bytes"
    /\ UNCHANGED <<args, data, exn, file, call, ret>>

\* output_path.write_bytes(eeprom_data); the prints that follow change nothing.
WriteBytes ==
    /\ pc = "write_bytes"
    /\ file' = [written |-> TRUE, bytes |-> eeprom_data]
    /\ pc' = "done"
    /\ UNCHANGED <<args, data, exn, eeprom_data, call, ret>>

Next ==
    \/ Header \/ EepromRev \/ BoardName \/ Version \/ Manufacturer
    \/ PartNumber \/ NumPins \/ SerialNumber \/ PinUsage
    \/ Vdd3v3b \/ Vdd5v \/ Sys5v \/ DcSupplied
    \/ Return \/ WriteBytes

Spec == Init /\ [][Next]_vars

-----------------------------------------------------------------------------
\* The helper functions, each called once on an input drawn from a bounded set

Widths ==
    { EEPROM_REV_SIZE, BOARD_NAME_SIZE, VERSION_SIZE, MANUFACTURER_SIZE,
      PART_NUMBER_SIZE, SERIAL_NUMBER_SIZE }

\* Letters, strings that begin with a space, and strings that leave ASCII
\* from the fourth character on (125, 126, 127, 128, ...).
PadCalls ==
    { [fn |-> "pad_string", s |-> Ramp(k, base), n |-> w, week |-> 0, year |-> 0] :
        w \in Widths, k \in 0..(BOARD_NAME_SIZE + MaxOver), base \in {65, 32, 125} }

SerialCalls ==
    { [fn |-> "generate_serial_number", s |-> Ramp(k, base), n |-> 0,
       week |-> w, year |-> y] :
        k \in 0..MaxAssemblyLen, base \in {65, 48},
        w \in 1..53, y \in {1999, 2000, 2009, 2026, 2100} }

InitFn ==
    /\ call \in PadCalls \cup SerialCalls
    /\ ret = NoRet
    /\ args = DEFAULTS
    /\ pc = "idle"
    /\ data = <<>>
    /\ exn = NoExn
    /\ eeprom_data = <<>>
    /\ file = NoFile

Returned(r) == [done |-> TRUE, ok |-> r.ok, err |-> r.err, val |-> r.val]

CallPadString ==
    /\ call.fn = "pad_string"
    /\ ~ret.done
    /\ ret' = Returned(pad_string(call.s, call.n))
    /\ UNCHANGED <<args, pc, data, exn, eeprom_data, file, call>>

CallGenerateSerialNumber ==
    /\ call.fn = "generate_serial_number"
    /\ ~ret.done
    /\ ret' = Returned(Ok(generate_serial_number(call.s,
                             [week |-> call.week, year |-> call.year])))
    /\ UNCHANGED <<args, pc, data, exn, eeprom_data, file, call>>

NextFn == CallPadString \/ CallGenerateSerialNumber

SpecFn == InitFn /\ [][NextFn]_vars

-----------------------------------------------------------------------------
\* Vocabulary of the properties

\* Bytes off .. off + size - 1 of a record.
Slice(d, off, size) == SubSeq(d, off + 1, off + size)

\* v followed by spaces up to width w.
SpacePadded(v, w) == [i \in 1..w |-> IF i <= Len(v) THEN v[i] ELSE 32]

BigEndian(v) == <<v \div 256, v % 256>>

\* generate_eeprom has returned to main().
HasReturned == pc \in {"write_bytes", "done"}

\* The pin table has been appended to data.
PastPins ==
    pc \in {"vdd_3v3b", "vdd_5v", "sys_5v", "dc_supplied", "return", "write_bytes", "done"}

\* build_pin_usage_data has just returned and its table been appended.
TableAppended == pc = "vdd_3v3b"

\* Slots of the pin table at record offset 88 whose word has bit 15 set.
UsedSlots(d) == {i \in 0..73 : d[88 + 2 * i + 1] >= 128}

InRange(v) == v >= 0 /\ v <= 65535

SerialSupplied == ~args.serial.is_none /\ args.serial.s # <<>>

\* The fields in layout order, by the label of the statement that appends them.
LayoutOrder ==
    << "eeprom_rev", "board_name", "version", "manufacturer", "part_number",
       "serial", "vdd_3v3b", "vdd_5v", "sys_5v", "dc_supplied" >>

Offending(f) ==
    CASE f = "eeprom_rev"   -> Len(args.eeprom_rev) > 2
      [] f = "board_name"   -> Len(args.board_name) > 32
      [] f = "version"      -> Len(args.version) > 4
      [] f = "manufacturer" -> Len(args.manufacturer) > 16
      [] f = "part_number"  -> Len(args.part_number) > 16
      [] f = "serial"       -> SerialSupplied /\ Len(args.serial.s) > 12
      [] f = "vdd_3v3b"     -> ~InRange(args.vdd_3v3b_ma)
      [] f = "vdd_5v"       -> ~InRange(args.vdd_5v_ma)
      [] f = "sys_5v"       -> ~InRange(args.sys_5v_ma)
      [] f = "dc_supplied"  -> ~InRange(args.dc_supplied_ma)

AllValid == \A k \in 1..Len(LayoutOrder) : ~Offending(LayoutOrder[k])

FirstOffending ==
    IF AllValid THEN "none"
    ELSE LayoutOrder[CHOOSE k \in 1..Len(LayoutOrder) :
            /\ Offending(LayoutOrder[k])
            /\ \A j \in 1..(k - 1) : ~Offending(LayoutOrder[j])]

IsAscii(s) == \A i \in 1..Len(s) : s[i] <= 127

\* The four current-draw fields: appending statement, record offset, value.
CurrentFields ==
    << [at |-> "vdd_3v3b",    off |-> 236, v |-> args.vdd_3v3b_ma],
       [at |-> "vdd_5v",      off |-> 238, v |-> args.vdd_5v_ma],
       [at |-> "sys_5v",      off |-> 240, v |-> args.sys_5v_ma],
       [at |-> "dc_supplied", off |-> 242, v |-> args.dc_supplied_ma] >>

\* The assignments of build_pin_usage_data that set_pin maps to slot i.
MappedTo(i) ==
    {k \in 1..Len(PinAssignments) :
        PinIndex(PinAssignments[k].header, PinAssignments[k].pin) = i}

\* Two decimal digits of n < 100; n zeros; the first 4 characters of s.
TwoDigits(n) == <<48 + (n \div 10), 48 + (n % 10)>>

Zeros(n) == [i \in 1..n |-> 48]

Cut4(s) == IF Len(s) > 4 THEN SubSeq(s, 1, 4) ELSE s

-----------------------------------------------------------------------------
\* C1: in every record generate_eeprom returns, the big-endian pin count at
\* offsets 74..75 equals the number of pin-table slots (offsets 88..235)
\* whose word has bit 15 set.
C1_PinCountEqualsUsedSlots ==
    HasReturned =>
        eeprom_data[75] * 256 + eeprom_data[76] = Cardinality(UsedSlots(eeprom_data))

\* C2: for all valid inputs (every string within its width, every current in
\* 0..65535, serial supplied or defaulted) generate_eeprom does not raise and
\* the record it returns is exactly 244 bytes long.
C2_RecordLength ==
    /\ AllValid => pc # "raised"
    /\ HasReturned => Len(eeprom_data) = 244

C2_Witness ==
    /\ pc = "write_bytes"
    /\ args.serial.is_none
    /\ Len(args.board_name) = 32
    /\ Len(args.manufacturer) = 15
    /\ Len(eeprom_data) = 244

\* C3: for an ASCII value v and a declared width w, pad_string(v, w) returns
\* exactly w bytes, v followed by w - len(v) spaces, when len(v) <= w, and
\* raises the too-long ValueError, never truncating, when len(v) > w; a board
\* name of 32 characters succeeds and one of 33 fails.
C3_PadString ==
    (call.fn = "pad_string" /\ ret.done /\ IsAscii(call.s)) =>
        /\ IF Len(call.s) <= call.n
           THEN /\ ret.ok
                /\ Len(ret.val) = call.n
                /\ \A i \in 1..Len(call.s) : ret.val[i] = call.s[i]
                /\ \A i \in (Len(call.s) + 1)..call.n : ret.val[i] = 32
           ELSE /\ ~ret.ok
                /\ ret.err = "ValueError"
                /\ ret.val = <<>>
        /\ (call.n = BOARD_NAME_SIZE /\ Len(call.s) = 32) => ret.ok
        /\ (call.n = BOARD_NAME_SIZE /\ Len(call.s) = 33) => ~ret.ok

C3_Witness ==
    /\ call.fn = "pad_string"
    /\ ret.done
    /\ call.n = BOARD_NAME_SIZE
    /\ Len(call.s) = 33
    /\ IsAscii(call.s)
    /\ ret.err = "ValueError"

\* C4: in every record generate_eeprom returns the fields sit at the fixed
\* offsets in the fixed order, whatever the inputs: magic header at 0..3,
\* space-padded revision at 4..5, board name at 6..37, version at 38..41,
\* manufacturer at 42..57, part number at 58..73, pin count at 74..75, serial
\* at 76..87, the pin table at 88..235 and the four big-endian currents at
\* 236..243.
C4_Layout ==
    HasReturned =>
        LET d == eeprom_data IN
        /\ Slice(d, 0, 4) = <<170, 85, 51, 238>>
        /\ Slice(d, 4, 2) = SpacePadded(args.eeprom_rev, 2)
        /\ Slice(d, 6, 32) = SpacePadded(args.board_name, 32)
        /\ Slice(d, 38, 4) = SpacePadded(args.version, 4)
        /\ Slice(d, 42, 16) = SpacePadded(args.manufacturer, 16)
        /\ Slice(d, 58, 16) = SpacePadded(args.part_number, 16)
        /\ Slice(d, 74, 2) = <<0, 36>>
        /\ IF SerialSupplied
           THEN Slice(d, 76, 12) = SpacePadded(args.serial.s, 12)
           ELSE \E now \in NowInputs :
                    Slice(d, 76, 12) = generate_serial_number(DEFAULT_ASSEMBLY_CODE, now)
        /\ Slice(d, 88, 148) = build_pin_usage_data
        /\ Slice(d, 236, 2) = BigEndian(args.vdd_3v3b_ma)
        /\ Slice(d, 238, 2) = BigEndian(args.vdd_5v_ma)
        /\ Slice(d, 240, 2) = BigEndian(args.sys_5v_ma)
        /\ Slice(d, 242, 2) = BigEndian(args.dc_supplied_ma)

C4_Witness ==
    /\ pc = "done"
    /\ args.eeprom_rev = DEFAULTS.eeprom_rev
    /\ Len(args.version) = 4
    /\ Len(args.part_number) = 13
    /\ SerialSupplied
    /\ args.vdd_5v_ma = 4660
    /\ args.dc_supplied_ma = 255
    /\ Slice(eeprom_data, 238, 2) = <<18, 52>>

\* C5: generation is all-or-nothing.  With an offending input (a string over
\* its width, a current outside 0..65535) the run raises at the first
\* offending field in layout order, generate_eeprom returns nothing and the
\* file is never written; with none the run does not raise, and what is
\* written is the returned record, 244 bytes long, after the return.
C5_AllOrNothing ==
    /\ pc = "raised" =>
          /\ exn.at = FirstOffending
          /\ exn.kind = IF exn.at \in {"vdd_3v3b", "vdd_5v", "sys_5v", "dc_supplied"}
                        THEN "struct.error" ELSE "ValueError"
    /\ ~AllValid => ~HasReturned /\ pc # "return" /\ eeprom_data = <<>> /\ ~file.written
    /\ AllValid => pc # "raised" /\ exn = NoExn
    /\ file.written => pc = "done" /\ file.bytes = eeprom_data /\ Len(file.bytes) = 244
    /\ ~file.written => file.bytes = <<>>

C5_Witness ==
    /\ pc = "raised"
    /\ exn.at = "manufacturer"
    /\ Len(args.manufacturer) = 17
    /\ Len(args.part_number) = 17
    /\ ~InRange(args.vdd_5v_ma)
    /\ Len(data) = 42
    /\ eeprom_data = <<>>
    /\ ~file.written

\* C6 as stated: for the pin at header 9, pin 26, mux mode 0, receive-enable
\* true, the index is 71 and the word at record offset 230 has high byte
\* 0xA0 and low byte 0x00.
C6_WordHighA0Low00 ==
    PastPins =>
        /\ PinIndex(9, 26) = 71
        /\ data[88 + 142 + 1] = 160
        /\ data[88 + 142 + 2] = 0

\* C6 amended: for the pin at header 9, pin 26, mux mode 0, receive-enable
\* true and the pull-up left at its default, the index is 71 and the word at
\* record offset 230 has high byte 0x80 (pin used) and low byte 0x30
\* (receive-enable 0x20, pull-up 0x10, mux 0).
C6_WordHigh80Low30 ==
    PastPins =>
        /\ PinIndex(9, 26) = 71
        /\ data[88 + 142 + 1] = 128
        /\ data[88 + 142 + 2] = 48

C6_Witness ==
    /\ pc = "vdd_3v3b"
    /\ Len(data) = 236
    /\ PinAssignments[1] = Pin(9, 26, 0, TRUE)
    /\ data[231] = 128

\* C7: each of the four current fields is an unsigned 16-bit big-endian
\* integer: once the field is appended its value is in 0..65535 and its two
\* bytes are (value div 256, value mod 256); a value below 0 or above 65535
\* is never appended, wrapped or truncated: the statement raises struct.error.
C7_CurrentsU16BigEndian ==
    \A k \in 1..4 :
        LET f == CurrentFields[k] IN
        /\ Len(data) >= f.off + 2 =>
              /\ InRange(f.v)
              /\ data[f.off + 1] = f.v \div 256
              /\ data[f.off + 2] = f.v % 256
        /\ (Len(data) = f.off /\ ~InRange(f.v)) => pc \in {f.at, "raised"}
        /\ (pc = "raised" /\ exn.at = f.at) =>
              /\ ~InRange(f.v)
              /\ exn.kind = "struct.error"
              /\ Len(data) = f.off

C7_Witness ==
    /\ pc = "raised"
    /\ exn.at = "sys_5v"
    /\ args.sys_5v_ma = 65536
    /\ args.vdd_5v_ma = 65535
    /\ Slice(data, 238, 2) = <<255, 255>>
    /\ Len(data) = 240

\* C8: for every header in {8, 9} and every pin in 1..46 the index set_pin
\* computes lies in [0, 74), so no assignment of build_pin_usage_data is
\* skipped: each is written to the table and marked used.
C8_EveryAssignmentMarked ==
    PastPins =>
        /\ \A h \in {8, 9}, p \in 1..46 : PinIndex(h, p) >= 0 /\ PinIndex(h, p) < 74
        /\ \A k \in 1..Len(PinAssignments) :
              LET i == PinIndex(PinAssignments[k].header, PinAssignments[k].pin)
              IN  i >= 0 /\ i < 74 /\ data[88 + 2 * i + 1] >= 128

\* C9: in the table build_pin_usage_data returns, appended at record offset
\* 88, every one of the 74 slots is either the all-zero word,
\* and no assignment maps to it, or a word with bit 15 set, bits 14..7 zero
\* and bits 2..0 the mux mode of the assignment mapped to it, high byte
\* first at byte offset index * 2; slot 18 (header 8, pin 19, mux mode 7) has
\* bit 15 set and mux bits 111.
C9_SlotsZeroOrUsed ==
    TableAppended =>
        /\ \A i \in 0..73 :
              LET hi == data[88 + 2 * i + 1]
                  lo == data[88 + 2 * i + 2]
              IN  \/ hi = 0 /\ lo = 0 /\ MappedTo(i) = {}
                  \/ /\ hi = 128
                     /\ lo < 128
                     /\ MappedTo(i) # {}
                     /\ \A k \in MappedTo(i) : lo % 8 = PinAssignments[k].mux_mode
        /\ PinIndex(8, 19) = 18
        /\ data[88 + 18 * 2 + 1] >= 128
        /\ data[88 + 18 * 2 + 2] % 8 = 7

C9_Witness ==
    /\ TableAppended
    /\ Len(data) = 88 + PIN_USAGE_SIZE
    /\ data[88 + 18 * 2 + 1] = 128
    /\ data[88 + 18 * 2 + 2] = 23
    /\ data[89] = 0
    /\ data[90] = 0

\* C10 as stated: generate_serial_number returns WWYYAAAA0001 with the
\* assembly code cut to 4 characters or, when shorter, LEFT-padded with '0'.
C10_AssemblyLeftPadded ==
    (call.fn = "generate_serial_number" /\ ret.done) =>
        ret.val = TwoDigits(call.week) \o TwoDigits(call.year % 100)
                    \o Zeros(4 - Len(Cut4(call.s))) \o Cut4(call.s)
                    \o <<48, 48, 48, 49>>

\* C10 amended: generate_serial_number returns exactly 12 characters
\* WWYYAAAA0001: 2-digit ISO week, 2-digit year, the assembly code cut to its
\* first 4 characters or, when shorter, RIGHT-padded with '0' to 4, then
\* 0001; so pad_string accepts it as the serial field.
C10_AssemblyRightPadded ==
    (call.fn = "generate_serial_number" /\ ret.done) =>
        /\ ret.val = TwoDigits(call.week) \o TwoDigits(call.year % 100)
                       \o Cut4(call.s) \o Zeros(4 - Len(Cut4(call.s)))
                       \o <<48, 48, 48, 49>>
        /\ Len(ret.val) = SERIAL_NUMBER_SIZE
        /\ pad_string(ret.val, SERIAL_NUMBER_SIZE) = Ok(ret.val)

C10_Witness ==
    /\ call.fn = "generate_serial_number"
    /\ ret.done
    /\ call.week = 53
    /\ call.year = 2009
    /\ call.s = <<65, 66>>
    /\ ret.val = <<53, 51, 48, 57, 65, 66, 48, 48, 48, 48, 48, 49>>

====
